---- MODULE Spec2Model ----
(***************************************************************************)
(* Todo/auth service (FastAPI + SQLAlchemy + python-jose + bcrypt).        *)
(*                                                                         *)
(* Three layers of the repository are modelled, each from its source:      *)
(*   - the store: the rows of the tables `users` and `todos` under the     *)
(*     constraints the models declare (primary key, unique, NOT NULL,      *)
(*     foreign key);                                                       *)
(*   - app/crud: the coroutine functions, as they behave when awaited;     *)
(*   - app/routers and app/crud/auth.get_current_user: the handlers and    *)
(*     the dependency, as written.  A function declared with `def` that    *)
(*     calls a coroutine function without `await` receives a coroutine     *)
(*     object: it is not None, it is truthy, and it has none of the row's  *)
(*     attributes.                                                         *)
(*                                                                         *)
(* Specifications:                                                         *)
(*   Spec         the HTTP service: a request passes oauth2_scheme and     *)
(*                get_current_user before its handler runs;                *)
(*   CrudSpec     the functions of app/crud applied directly;              *)
(*   MergeSpec    update_todo applied with every patch TodoUpdate admits;  *)
(*   HandlerSpec  the handlers applied under an identity context           *)
(*                {id, email} (what the dependency is declared to          *)
(*                deliver), and the dependency applied to a token;         *)
(*   TokenSpec    the tokens handed out by login and updateSelf, kept      *)
(*                with their holder and presented again later;             *)
(*   SessionSpec  get_db around an endpoint: enter, run, exit.             *)
(***************************************************************************)
EXTENDS Integers, Sequences, FiniteSets, TLC

VARIABLES users, todos, nextUid, nextTid, pending, last, sessions, issued

vars == <<users, todos, nextUid, nextTid, pending, last, sessions, issued>>

(***************************************************************************)
(* Bounds and input domains.                                               *)
(***************************************************************************)
MaxUsers == 2
MaxTodos == 2
MaxPatchedTodos == 1
MaxSessions == 2

Usernames == {"alice", "bob"}
Emails == {"a@x.io", "b@x.io"}
Passwords == {"pw1", "pw2"}
Salts == {"s1"}

\* SQL NULL / JSON null in a column or a field.
NULL == "<null>"

\* Python None as the result of a lookup, and a coroutine object that was
\* never awaited.
None == [kind |-> "None"]
Coroutine == [kind |-> "coroutine"]

\* What a TodoCreate carries (state: the Literal of TodoBase) and what a
\* TodoUpdate carries (state: any string).
Titles == {"T1"}
Descriptions == {NULL}
TodoStates == {"pendiente", "completado"}
UpdateTitles == {"T2"}
UpdateDescriptions == {"D1"}
UpdateStates == {"completado", "en_progreso"}

(***************************************************************************)
(* Configuration (config.py): loaded once, cached by lru_cache.            *)
(***************************************************************************)
SECRET_KEY == "test_secret_key"
ALGORITHM == "HS256"

(***************************************************************************)
(* Outcomes of a call: a returned value, an HTTPException, or any other    *)
(* exception (which FastAPI answers with 500).                             *)
(***************************************************************************)
Ok(v) == [kind |-> "ok", value |-> v]
Raise(type) == [kind |-> "raise", type |-> type]
HTTPException(status, detail, headers) ==
    [kind |-> "http", status |-> status, detail |-> detail, headers |-> headers]

NoHeaders == {}
BearerChallenge == {<<"WWW-Authenticate", "Bearer">>}

\* A database as the crud functions see it, and the result of a crud call.
DB(U, T) == [users |-> U, todos |-> T]
\* The outcome of a call, the tables it leaves, and how many times it called
\* db.delete and db.commit on the way.
Result(out, U, T) == [out |-> out, users |-> U, todos |-> T, deletes |-> 0, commits |-> 0]
\* ... for a call that reached `await db.commit()`.
Commit(out, U, T) == [Result(out, U, T) EXCEPT !.commits = 1]
\* ... for a call that reached `await db.delete(row)` and `await db.commit()`.
DeleteCommit(out, U, T) == [Result(out, U, T) EXCEPT !.deletes = 1, !.commits = 1]

SeqToSet(s) == {s[i] : i \in 1..Len(s)}

\* Python attribute access and truthiness on the values of the model.
HasAttr(x, a) == a \in DOMAIN x
Falsy(x) == x.kind \in {"None", "False"}

\* Calling a coroutine function without `await` runs none of its body and
\* returns a coroutine object, whatever the body would have returned.
\* Variant: the call awaited, its value the value of the coroutine.
Awaited(call) == call

NotAwaited(call) == Coroutine

(***************************************************************************)
(* bcrypt: hashpw(p, gensalt()) embeds the salt; checkpw recomputes the    *)
(* hash of the candidate under the embedded salt and compares.             *)
(***************************************************************************)
hashpw(password, salt) == <<"$2b$", salt, password>>
checkpw(password, hashed) == hashpw(password, hashed[2]) = hashed

(***************************************************************************)
(* The tables (app/models).                                                *)
(***************************************************************************)
UserRow(id, username, email, hashed_password) ==
    [kind |-> "User", id |-> id, username |-> username, email |-> email,
     hashed_password |-> hashed_password]

ToDoRow(id, title, description, state, user_id) ==
    [kind |-> "ToDo", id |-> id, title |-> title, description |-> description,
     state |-> state, user_id |-> user_id]

\* Variant: username declared without unique=True.
UsersConstraintOK_EmailOnly(U) ==
    /\ \A u \in U : u.username # NULL /\ u.email # NULL
    /\ \A u, v \in U : (u.id = v.id \/ u.email = v.email) => u = v

\* users: primary key id, unique username, unique email, NOT NULL columns.
UsersConstraintOK(U) ==
    /\ \A u \in U : u.username # NULL /\ u.email # NULL
    /\ \A u, v \in U : (u.id = v.id \/ u.username = v.username \/ u.email = v.email) => u = v

\* Variant: user_id declared without ForeignKey("users.id").
TodosConstraintOK_NoFK(U, T) ==
    /\ \A i \in 1..Len(T) : T[i].title # NULL /\ T[i].user_id # NULL
    /\ \A i, j \in 1..Len(T) : T[i].id = T[j].id => i = j

\* todos: primary key id, title and user_id NOT NULL, user_id references users.id.
TodosConstraintOK(U, T) ==
    /\ \A i \in 1..Len(T) : T[i].title # NULL /\ T[i].user_id # NULL
    /\ \A i, j \in 1..Len(T) : T[i].id = T[j].id => i = j
    /\ \A i \in 1..Len(T) : \E u \in U : u.id = T[i].user_id

(***************************************************************************)
(* app/crud/user.py                                                        *)
(***************************************************************************)
get_user_by_username(db, username) ==
    IF \E u \in db.users : u.username = username
    THEN CHOOSE u \in db.users : u.username = username
    ELSE None

get_user_by_email(db, email) ==
    IF \E u \in db.users : u.email = email
    THEN CHOOSE u \in db.users : u.email = email
    ELSE None

\* Variant: db.merge in place of db.add, the new row replacing the rows it
\* collides with.
create_user_upsert(db, user, id, salt) ==
    LET db_user == UserRow(id, user.username, user.email, hashpw(user.password, salt))
        kept == {u \in db.users : u.username # user.username /\ u.email # user.email}
    IN Commit(Ok(db_user), kept \cup {db_user}, db.todos)

\* user: [username, email, password]; id: the uuid the column default draws;
\* salt: what gensalt() draws.
create_user(db, user, id, salt) ==
    LET db_user == UserRow(id, user.username, user.email, hashpw(user.password, salt))
        U == db.users \cup {db_user}
    IN IF UsersConstraintOK(U)
       THEN Commit(Ok(db_user), U, db.todos)
       ELSE Commit(Raise("IntegrityError"), db.users, db.todos)

\* A patch is a function whose domain is the set of fields the request set
\* (model_dump(exclude_unset=True)); an attribute that was not set reads None.
Field(patch, f) == IF f \in DOMAIN patch THEN patch[f] ELSE NULL

\* Variant: a `password` entry of the patch is skipped, the stored hash kept.
update_user_keephash(db, user_email, user_update, salt) ==
    LET db_user == get_user_by_email(db, user_email)
    IN IF Field(user_update, "password") = NULL
       THEN Result(Raise("AttributeError"), db.users, db.todos)
       ELSE IF db_user = None
       THEN Result(Ok(None), db.users, db.todos)
       ELSE LET new == [db_user EXCEPT
                          !.username = IF "username" \in DOMAIN user_update
                                       THEN user_update.username ELSE @]
                U == (db.users \ {db_user}) \cup {new}
            IN IF UsersConstraintOK(U)
               THEN Commit(Ok(new), U, db.todos)
               ELSE Commit(Raise("IntegrityError"), db.users, db.todos)

update_user(db, user_email, user_update, salt) ==
    LET db_user == get_user_by_email(db, user_email)
    IN IF Field(user_update, "password") = NULL
       THEN \* None.encode('utf-8'), evaluated before `if db_user`
            Result(Raise("AttributeError"), db.users, db.todos)
       ELSE IF db_user = None
       THEN Result(Ok(None), db.users, db.todos)
       ELSE LET hashed_password == hashpw(user_update.password, salt)
                new == [db_user EXCEPT
                          !.username = IF "username" \in DOMAIN user_update
                                       THEN user_update.username ELSE @,
                          !.hashed_password = IF "password" \in DOMAIN user_update
                                              THEN hashed_password ELSE @]
                U == (db.users \ {db_user}) \cup {new}
            IN IF UsersConstraintOK(U)
               THEN Commit(Ok(new), U, db.todos)
               ELSE Commit(Raise("IntegrityError"), db.users, db.todos)

\* User.todos = relationship("ToDo", back_populates="user") declares no delete
\* cascade: when the parent is deleted the unit of work loads the children
\* and sets their foreign key to NULL.
RelationshipOnDelete(T, uid) ==
    [i \in 1..Len(T) |-> IF T[i].user_id = uid THEN [T[i] EXCEPT !.user_id = NULL] ELSE T[i]]

\* Variant: a store that accepts the children with their user_id set to NULL.
delete_user_commit_unchecked(db, db_user) ==
    IF db_user = None
    THEN Result(Ok(None), db.users, db.todos)
    ELSE DeleteCommit(Ok(db_user), {u \in db.users : u.id # db_user.id},
                RelationshipOnDelete(db.todos, db_user.id))

\* db.delete(db_user); db.commit() for a row the session holds.
delete_user_commit(db, db_user) ==
    IF db_user = None
    THEN Result(Ok(None), db.users, db.todos)
    ELSE LET U == {u \in db.users : u.id # db_user.id}
             T == RelationshipOnDelete(db.todos, db_user.id)
         IN IF TodosConstraintOK(U, T)
            THEN DeleteCommit(Ok(db_user), U, T)
            ELSE DeleteCommit(Raise("IntegrityError"), db.users, db.todos)

\* Variant: the SELECT issued without its where clause.
delete_user_unfiltered(db, user_email) ==
    delete_user_commit(db, IF db.users = {} THEN None ELSE CHOOSE u \in db.users : TRUE)

delete_user(db, user_email) ==
    delete_user_commit(db, get_user_by_email(db, user_email))

False == [kind |-> "False"]

\* Variant: the checkpw test left out.
authenticate_user_anypassword(db, username, password) ==
    LET user == get_user_by_username(db, username)
    IN IF user = None THEN False ELSE user

authenticate_user(db, username, password) ==
    LET user == get_user_by_username(db, username)
    IN IF user = None THEN False
       ELSE IF ~checkpw(password, user.hashed_password) THEN False
       ELSE user

(***************************************************************************)
(* app/crud/todo.py                                                        *)
(***************************************************************************)
Drop(s, n) == IF n >= Len(s) THEN << >> ELSE SubSeq(s, n + 1, Len(s))
Take(s, n) == IF n >= Len(s) THEN s ELSE SubSeq(s, 1, n)

get_todos_by_user(db, user_id, skip, limit) ==
    Take(Drop(SelectSeq(db.todos, LAMBDA t : t.user_id = user_id), skip), limit)

get_todo_by_id(db, todo_id) ==
    LET hits == SelectSeq(db.todos, LAMBDA t : t.id = todo_id)
    IN IF hits = << >> THEN None ELSE Head(hits)

\* Variant: the commit wrapped in try/except, tried a second time and its
\* failure answered with None.
create_user_todo_swallow(db, todo, user_id, id) ==
    LET db_todo == ToDoRow(id, todo.title, todo.description, todo.state, user_id)
        T == Append(db.todos, db_todo)
    IN IF TodosConstraintOK(db.users, T)
       THEN Commit(Ok(db_todo), db.users, T)
       ELSE [Result(Ok(None), db.users, db.todos) EXCEPT !.commits = 2]

\* todo: [title, description, state] as TodoCreate.model_dump() gives it.
create_user_todo(db, todo, user_id, id) ==
    LET db_todo == ToDoRow(id, todo.title, todo.description, todo.state, user_id)
        T == Append(db.todos, db_todo)
    IN IF TodosConstraintOK(db.users, T)
       THEN Commit(Ok(db_todo), db.users, T)
       ELSE Commit(Raise("IntegrityError"), db.users, db.todos)

\* Variant: the row rebuilt from the patch, a field the patch leaves out
\* taking the default TodoBase gives it.
update_todo_replace(db, todo_id, todo_update) ==
    LET db_todo == get_todo_by_id(db, todo_id)
    IN IF db_todo = None
       THEN Result(Ok(None), db.users, db.todos)
       ELSE LET defaults == [db_todo EXCEPT !.description = NULL, !.state = "pendiente"]
                new == [f \in DOMAIN db_todo |->
                          IF f \in DOMAIN todo_update THEN todo_update[f] ELSE defaults[f]]
                T == [i \in 1..Len(db.todos) |->
                          IF db.todos[i].id = todo_id THEN new ELSE db.todos[i]]
            IN IF TodosConstraintOK(db.users, T)
               THEN Commit(Ok(new), db.users, T)
               ELSE Commit(Raise("IntegrityError"), db.users, db.todos)

update_todo(db, todo_id, todo_update) ==
    LET db_todo == get_todo_by_id(db, todo_id)
    IN IF db_todo = None
       THEN Result(Ok(None), db.users, db.todos)
       ELSE LET new == [f \in DOMAIN db_todo |->
                          IF f \in DOMAIN todo_update THEN todo_update[f] ELSE db_todo[f]]
                T == [i \in 1..Len(db.todos) |->
                          IF db.todos[i].id = todo_id THEN new ELSE db.todos[i]]
            IN IF TodosConstraintOK(db.users, T)
               THEN Commit(Ok(new), db.users, T)
               ELSE Commit(Raise("IntegrityError"), db.users, db.todos)

\* Variant: db.delete and db.commit outside the `if db_todo:` block.
delete_todo_unguarded(db, todo_id) ==
    LET db_todo == get_todo_by_id(db, todo_id)
    IN DeleteCommit(Ok(db_todo), db.users, SelectSeq(db.todos, LAMBDA t : t.id # todo_id))

delete_todo(db, todo_id) ==
    LET db_todo == get_todo_by_id(db, todo_id)
    IN IF db_todo = None
       THEN Result(Ok(None), db.users, db.todos)
       ELSE DeleteCommit(Ok(db_todo), db.users, SelectSeq(db.todos, LAMBDA t : t.id # todo_id))

(***************************************************************************)
(* python-jose: a compact JWS is header.payload.signature, the signature   *)
(* an HMAC of header.payload under the key with the header's algorithm.    *)
(***************************************************************************)
HMAC(alg, key, signing_input) == <<alg, key, signing_input>>

jwt_encode(claims, key, algorithm) ==
    LET header == [alg |-> algorithm, typ |-> "JWT"]
    IN [kind |-> "jws", header |-> header, payload |-> claims,
        signature |-> HMAC(algorithm, key, <<header, claims>>)]

\* A string that does not split into three base64url segments of JSON.
TextToken(text) == [kind |-> "text", text |-> text]

jwt_decode(token, key, algorithms) ==
    IF token = None
    THEN Raise("AttributeError")                 \* None has no rsplit
    ELSE IF token.kind # "jws"
    THEN Raise("JWTError")                       \* not enough segments / bad header
    ELSE IF token.header.alg \notin algorithms
    THEN Raise("JWTError")                       \* the specified alg value is not allowed
    ELSE IF token.signature # HMAC(token.header.alg, key, <<token.header, token.payload>>)
    THEN Raise("JWTError")                       \* signature verification failed
    ELSE IF "sub" \in DOMAIN token.payload /\ token.payload.sub = NULL
    THEN Raise("JWTError")                       \* JWTClaimsError: subject must be a string
    ELSE Ok(token.payload)

(***************************************************************************)
(* app/lib/utils.py                                                        *)
(***************************************************************************)
create_access_token(data) == jwt_encode(data, SECRET_KEY, ALGORITHM)

(***************************************************************************)
(* app/crud/auth.py                                                        *)
(***************************************************************************)
NoHeader == [kind |-> "absent"]
Bearer(token) == [kind |-> "bearer", token |-> token]

\* OAuth2PasswordBearer(tokenUrl="token"), auto_error left at its default.
oauth2_scheme(authorization) ==
    IF authorization.kind = "absent"
    THEN HTTPException(401, "Not authenticated", BearerChallenge)
    ELSE Ok(authorization.token)

credentials_exception == HTTPException(401, "Invalid credentials", BearerChallenge)

get_current_user(token, db) ==
    LET decoded == jwt_decode(token, SECRET_KEY, {ALGORITHM})
    IN IF decoded.kind = "raise"
       THEN IF decoded.type = "JWTError" THEN credentials_exception ELSE decoded
       ELSE LET username == Field(decoded.value, "sub")
            IN IF username = NULL
               THEN credentials_exception
               ELSE LET user == NotAwaited(get_user_by_username(db, username))
                    IN IF user = None
                       THEN credentials_exception
                       ELSE IF ~(HasAttr(user, "id") /\ HasAttr(user, "email"))
                       THEN Raise("AttributeError")
                       ELSE Ok([id |-> user.id, email |-> user.email])

\* The dependency chain of an authenticated endpoint.
Depends_get_current_user(authorization, db) ==
    LET token == oauth2_scheme(authorization)
    IN IF token.kind # "ok" THEN token ELSE get_current_user(token.value, db)

(***************************************************************************)
(* app/routers/user.py: coroutine handlers, every crud call awaited.       *)
(***************************************************************************)
user_create(db, user, id, salt) == create_user(db, user, id, salt)

Unauthorized == HTTPException(400, "User not found or unauthorized", NoHeaders)

read_user(db, current_user) ==
    LET user == get_user_by_email(db, current_user.email)
    IN IF Falsy(user) \/ user.id # current_user.id
       THEN Result(Unauthorized, db.users, db.todos)
       ELSE Result(Ok(user), db.users, db.todos)

update_user_by_email(db, current_user, user_update, salt) ==
    LET user == get_user_by_email(db, current_user.email)
    IN IF Falsy(user) \/ user.id # current_user.id
       THEN Result(Unauthorized, db.users, db.todos)
       ELSE LET r == update_user(db, current_user.email, user_update, salt)
            IN IF r.out.kind # "ok"
               THEN r
               ELSE IF ~HasAttr(r.out.value, "username")
               THEN [r EXCEPT !.out = Raise("AttributeError")]
               ELSE [r EXCEPT !.out = Ok([user |-> r.out.value,
                                          access_token |-> create_access_token([sub |-> r.out.value.username])])]

\* Variant: the fetch-and-compare guard left out.
user_delete_unguarded(db, current_user) ==
    LET r == delete_user(db, current_user.email)
    IN IF r.out.kind # "ok"
       THEN r
       ELSE [r EXCEPT !.out = Ok([message |-> "User deleted successfully"])]

user_delete(db, current_user) ==
    LET user == get_user_by_email(db, current_user.email)
    IN IF Falsy(user) \/ user.id # current_user.id
       THEN Result(Unauthorized, db.users, db.todos)
       ELSE LET r == delete_user(db, current_user.email)
            IN IF r.out.kind # "ok"
               THEN r
               ELSE [r EXCEPT !.out = Ok([message |-> "User deleted successfully"])]

(***************************************************************************)
(* app/routers/auth.py                                                     *)
(***************************************************************************)
\* (the detail is "Usuario o contraseña incorrectos", written here in ASCII)
login_for_access_token(db, username, password) ==
    LET user == authenticate_user(db, username, password)
    IN IF Falsy(user)
       THEN Result(HTTPException(401, "Usuario o contrasena incorrectos", BearerChallenge),
                   db.users, db.todos)
       ELSE Result(Ok([access_token |-> create_access_token([sub |-> user.username]),
                       token_type |-> "bearer"]),
                   db.users, db.todos)

(***************************************************************************)
(* app/routers/todo.py: handlers declared with `def`; no crud call is      *)
(* awaited, so each call yields a coroutine object and changes nothing.    *)
(***************************************************************************)
NotFound == HTTPException(404, "Todo not found", NoHeaders)

read_todos(db, current_user, skip, limit) ==
    LET todos_ == NotAwaited(get_todos_by_user(db, current_user.id, skip, limit))
    IN Result(Ok(todos_), db.users, db.todos)

create_todo(db, current_user, todo, id) ==
    Result(Ok(NotAwaited(create_user_todo(db, todo, current_user.id, id))), db.users, db.todos)

\* `not todo or todo.user_id != current_user["id"]`, shared by the three
\* handlers below: the guard they evaluate before acting.
OwnershipGuard(todo, current_user) ==
    IF Falsy(todo) THEN NotFound
    ELSE IF ~HasAttr(todo, "user_id") THEN Raise("AttributeError")
    ELSE IF todo.user_id # current_user.id THEN NotFound
    ELSE Ok(todo)

read_todo(db, todo_id, current_user) ==
    LET todo == NotAwaited(get_todo_by_id(db, todo_id))
    IN Result(OwnershipGuard(todo, current_user), db.users, db.todos)

update_todo_item(db, todo_id, todo_update, current_user) ==
    LET todo == NotAwaited(get_todo_by_id(db, todo_id))
        g == OwnershipGuard(todo, current_user)
    IN IF g.kind # "ok"
       THEN Result(g, db.users, db.todos)
       ELSE Result(Ok(NotAwaited(update_todo(db, todo_id, todo_update))), db.users, db.todos)

delete_todo_item(db, todo_id, current_user) ==
    LET todo == NotAwaited(get_todo_by_id(db, todo_id))
        g == OwnershipGuard(todo, current_user)
    IN IF g.kind # "ok"
       THEN Result(g, db.users, db.todos)
       ELSE \* delete_todo(db, todo_id) is called and its coroutine dropped
            Result(Ok([message |-> "Todo deleted successfully"]), db.users, db.todos)

(***************************************************************************)
(* main.py                                                                 *)
(***************************************************************************)
\* GET /info: no dependency but get_settings; debug_mode and api_prefix are
\* whatever the environment configured.
info(debug, api_prefix) ==
    Ok(("123123" :> SECRET_KEY) @@ ("app_name" :> "Mi API")
         @@ ("debug_mode" :> debug) @@ ("api_prefix" :> api_prefix))

(***************************************************************************)
(* FastAPI's answer to the outcome of an endpoint.                         *)
(***************************************************************************)
\* response_model=User (app/schemas/user.py) and response_model=Todo.
\* Variant: the row serialized as it is, without a response model.
UserSchema_unfiltered(row) == row

UserSchema(row) == [id |-> row.id, username |-> row.username, email |-> row.email]
TodoSchema(row) == [id |-> row.id, title |-> row.title, description |-> row.description,
                    state |-> row.state, user_id |-> row.user_id]

Response(status, detail, headers, body) ==
    [status |-> status, detail |-> detail, headers |-> headers, body |-> body]

\* An unhandled exception, and a coroutine object handed to the serializer,
\* are both answered with 500.
Respond(out, success_status, body) ==
    IF out.kind = "http" THEN Response(out.status, out.detail, out.headers, None)
    ELSE IF out.kind = "raise" THEN Response(500, "Internal Server Error", NoHeaders, None)
    ELSE IF out.value = Coroutine THEN Response(500, "Internal Server Error", NoHeaders, None)
    ELSE Response(success_status, NULL, NoHeaders, body)

(***************************************************************************)
(* Inputs.                                                                 *)
(***************************************************************************)
\* generate_uuid (app/lib/utils.py): str(uuid.uuid4()), a value no earlier
\* call returned; the n-th uuid drawn for a table is written "u<n>", "t<n>".
UserId(n) == "u" \o ToString(n)
TodoId(n) == "t" \o ToString(n)
UserIds == {UserId(n) : n \in 1..MaxUsers}
TodoIds == {TodoId(n) : n \in 1..MaxTodos}

\* The tokens a client presents: the ones the service signs for a username,
\* and the ways the tests of get_current_user spoil one.
Tokens ==
    {TextToken(""), TextToken("not.a.jwt.token")}
      \cup {jwt_encode([sub |-> u], SECRET_KEY, ALGORITHM) : u \in Usernames}
      \cup {jwt_encode([sub |-> "alice"], "wrong_secret_key", ALGORITHM),
            jwt_encode([sub |-> "alice"], SECRET_KEY, "HS384"),
            jwt_encode([sub |-> NULL], SECRET_KEY, ALGORITHM),
            jwt_encode([other_field |-> "value"], SECRET_KEY, ALGORITHM)}
AuthHeaders == {NoHeader} \cup {Bearer(t) : t \in Tokens}

UserCreates == [username : Usernames, email : Emails, password : Passwords]
UserUpdates ==
    {p \in UNION {[D -> Usernames \cup Passwords] : D \in SUBSET {"username", "password"}} :
        /\ "username" \in DOMAIN p => p["username"] \in Usernames
        /\ "password" \in DOMAIN p => p["password"] \in Passwords}

TodoCreates == [title : Titles, description : Descriptions, state : TodoStates]
TodoUpdates ==
    {p \in UNION {[D -> UpdateTitles \cup UpdateDescriptions \cup UpdateStates] :
                     D \in SUBSET {"title", "description", "state"}} :
        /\ "title" \in DOMAIN p => p["title"] \in UpdateTitles
        /\ "description" \in DOMAIN p => p["description"] \in UpdateDescriptions
        /\ "state" \in DOMAIN p => p["state"] \in UpdateStates}

\* The identity contexts get_current_user is declared to return.
Identities == {[id |-> u.id, email |-> u.email] : u \in users}

\* The dicts a user handler can be handed as current_user: an identity whose
\* record has since been deleted, or whose email a later record holds,
\* included.
IdentityContexts == [id : UserIds, email : Emails]

NoSession == [kind |-> "NoSession"]

\* The requests in flight at once, and what each has done with the session
\* get_db gave it: nothing yet, entered the `async with` block, returned or
\* raised out of the endpoint (how), left the `async with` block.
Slots == 1..MaxSessions
Idle == [phase |-> "idle", exit |-> "none"]
NoCaller == [kind |-> "NoCaller"]
NoCall == [layer |-> "init", op |-> "none", auth |-> NoHeader, caller |-> NoCaller,
           args |-> << >>, out |-> Ok(None), resp |-> None, deletes |-> 0, commits |-> 0]

db == DB(users, todos)

(***************************************************************************)
(* Initial state: the tables as Base.metadata.create_all leaves them.      *)
(***************************************************************************)
Init ==
    /\ users = {}
    /\ todos = << >>
    /\ nextUid = 1
    /\ nextTid = 1
    /\ pending = NoSession
    /\ last = NoCall
    /\ sessions = [slot \in Slots |-> Idle]
    /\ issued = {}

\* One call: its effect on the store and the record of what was asked and
\* what came back.
Finish(layer, op, auth, caller, args, r, resp) ==
    /\ users' = r.users
    /\ todos' = r.todos
    /\ nextUid' = IF Cardinality(r.users \ users) > 0 /\ op \in {"user_create", "create_user"}
                  THEN nextUid + 1 ELSE nextUid
    /\ nextTid' = IF Len(r.todos) > Len(todos) THEN nextTid + 1 ELSE nextTid
    /\ last' = [layer |-> layer, op |-> op, auth |-> auth, caller |-> caller,
                args |-> args, out |-> r.out, resp |-> resp,
                deletes |-> r.deletes, commits |-> r.commits]

(***************************************************************************)
(* The HTTP service (main.py): one action per route.                       *)
(***************************************************************************)
HttpUserCreate ==
    \E user \in UserCreates, salt \in Salts :
        /\ nextUid <= MaxUsers
        /\ LET r == user_create(db, user, UserId(nextUid), salt)
           IN Finish("http", "user_create", NoHeader, NoCaller, user, r,
                     Respond(r.out, 201, IF r.out.kind = "ok" THEN UserSchema(r.out.value) ELSE None))
        /\ UNCHANGED <<pending, sessions, issued>>

HttpLogin ==
    \E username \in Usernames, password \in Passwords :
        /\ LET r == login_for_access_token(db, username, password)
           IN Finish("http", "login", NoHeader, NoCaller,
                     [username |-> username, password |-> password], r,
                     Respond(r.out, 200, IF r.out.kind = "ok" THEN r.out.value ELSE None))
        /\ UNCHANGED <<pending, sessions, issued>>

\* An authenticated route: the dependency first, the handler only when the
\* dependency returned an identity.
Authenticated(op, auth, args, cu, r, resp) ==
    /\ Finish("http", op, auth, IF cu.kind = "ok" THEN cu.value ELSE NoCaller, args,
              IF cu.kind = "ok" THEN r ELSE Result(cu, users, todos),
              IF cu.kind = "ok" THEN resp ELSE Respond(cu, 200, None))
    /\ UNCHANGED <<pending, sessions, issued>>

HttpReadUser ==
    \E auth \in AuthHeaders :
        LET cu == Depends_get_current_user(auth, db)
            r == read_user(db, cu.value)
        IN Authenticated("read_user", auth, << >>, cu, r,
                         Respond(r.out, 200, IF r.out.kind = "ok" THEN UserSchema(r.out.value) ELSE None))

HttpUpdateUser ==
    \E auth \in AuthHeaders, user_update \in UserUpdates, salt \in Salts :
        LET cu == Depends_get_current_user(auth, db)
            r == update_user_by_email(db, cu.value, user_update, salt)
        IN Authenticated("update_user_by_email", auth, user_update, cu, r,
                         Respond(r.out, 200,
                                 IF r.out.kind = "ok"
                                 THEN [user |-> UserSchema(r.out.value.user),
                                       access_token |-> r.out.value.access_token]
                                 ELSE None))

HttpDeleteUser ==
    \E auth \in AuthHeaders :
        LET cu == Depends_get_current_user(auth, db)
            r == user_delete(db, cu.value)
        IN Authenticated("user_delete", auth, << >>, cu, r, Respond(r.out, 204, None))

HttpReadTodos ==
    \E auth \in AuthHeaders, skip \in 0..1, limit \in 1..2 :
        LET cu == Depends_get_current_user(auth, db)
            r == read_todos(db, cu.value, skip, limit)
        IN Authenticated("read_todos", auth, [skip |-> skip, limit |-> limit], cu, r,
                         Respond(r.out, 200, r.out.value))

HttpCreateTodo ==
    \E auth \in AuthHeaders, todo \in TodoCreates :
        /\ nextTid <= MaxTodos
        /\ LET cu == Depends_get_current_user(auth, db)
               r == create_todo(db, cu.value, todo, TodoId(nextTid))
           IN Authenticated("create_todo", auth, todo, cu, r, Respond(r.out, 201, r.out.value))

HttpReadTodo ==
    \E auth \in AuthHeaders, todo_id \in TodoIds :
        LET cu == Depends_get_current_user(auth, db)
            r == read_todo(db, todo_id, cu.value)
        IN Authenticated("read_todo", auth, [todo_id |-> todo_id], cu, r,
                         Respond(r.out, 200, IF r.out.kind = "ok" THEN TodoSchema(r.out.value) ELSE None))

HttpUpdateTodo ==
    \E auth \in AuthHeaders, todo_id \in TodoIds, todo_update \in TodoUpdates :
        LET cu == Depends_get_current_user(auth, db)
            r == update_todo_item(db, todo_id, todo_update, cu.value)
        IN Authenticated("update_todo_item", auth,
                         [todo_id |-> todo_id, todo_update |-> todo_update], cu, r,
                         Respond(r.out, 200, r.out.value))

HttpDeleteTodo ==
    \E auth \in AuthHeaders, todo_id \in TodoIds :
        LET cu == Depends_get_current_user(auth, db)
            r == delete_todo_item(db, todo_id, cu.value)
        IN Authenticated("delete_todo_item", auth, [todo_id |-> todo_id], cu, r,
                         Respond(r.out, 200, IF r.out.kind = "ok" THEN r.out.value ELSE None))

\* Settings.DEBUG and Settings.API_PREFIX as they appear in a JSON body.
DebugModes == {"false", "true"}
ApiPrefixes == {"/api"}

HttpInfo ==
    \E debug \in DebugModes, api_prefix \in ApiPrefixes :
        /\ LET out == info(debug, api_prefix)
           IN Finish("http", "info", NoHeader, NoCaller, << >>, Result(out, users, todos),
                     Respond(out, 200, out.value))
        /\ UNCHANGED <<pending, sessions, issued>>

Next ==
    \/ HttpInfo
    \/ HttpUserCreate
    \/ HttpLogin
    \/ HttpReadUser
    \/ HttpUpdateUser
    \/ HttpDeleteUser
    \/ HttpReadTodos
    \/ HttpCreateTodo
    \/ HttpReadTodo
    \/ HttpUpdateTodo
    \/ HttpDeleteTodo

Spec == Init /\ [][Next]_vars

(***************************************************************************)
(* app/crud applied directly, each call awaited by its caller.             *)
(* delete_user is taken in its two storage steps (the SELECT, then         *)
(* delete + commit) so that other calls can fall between them.             *)
(***************************************************************************)
\* The patches the crud layer is driven with: none of the fields, or state.
StateUpdates == {p \in TodoUpdates : DOMAIN p \subseteq {"state"} /\ \A f \in DOMAIN p : p[f] \in TodoStates}

\* ... and the patch {"title": null}, which TodoUpdate (title: Optional[str])
\* admits and the column (nullable=False) does not.
NullTitle == [title |-> NULL]

Crud(op, args, r) ==
    /\ Finish("crud", op, NoHeader, NoCaller, args, r, None)
    /\ UNCHANGED <<pending, sessions, issued>>

CrudCreateUser ==
    \E user \in UserCreates, salt \in Salts :
        /\ nextUid <= MaxUsers
        /\ Crud("create_user", user, create_user(db, user, UserId(nextUid), salt))

CrudUpdateUser ==
    \E email \in Emails, user_update \in UserUpdates, salt \in Salts :
        Crud("update_user", [email |-> email, user_update |-> user_update],
             update_user(db, email, user_update, salt))

CrudDeleteUserFetch ==
    \E email \in Emails :
        /\ pending = NoSession
        /\ LET db_user == get_user_by_email(db, email)
           IN IF db_user = None
              THEN /\ Finish("crud", "delete_user", NoHeader, NoCaller, [email |-> email],
                             delete_user_commit(db, db_user), None)
                   /\ UNCHANGED <<pending, sessions, issued>>
              ELSE /\ pending' = db_user
                   /\ UNCHANGED <<users, todos, nextUid, nextTid, last, sessions, issued>>

CrudDeleteUserCommit ==
    /\ pending # NoSession
    /\ Finish("crud", "delete_user", NoHeader, NoCaller, [email |-> pending.email],
              delete_user_commit(db, pending), None)
    /\ pending' = NoSession
    /\ UNCHANGED <<sessions, issued>>

CrudCreateTodo ==
    \E todo \in TodoCreates, user_id \in UserIds :
        /\ nextTid <= MaxTodos
        /\ Crud("create_user_todo", [todo |-> todo, user_id |-> user_id],
                create_user_todo(db, todo, user_id, TodoId(nextTid)))

CrudGetTodo ==
    \E todo_id \in TodoIds :
        Crud("get_todo_by_id", [todo_id |-> todo_id],
             Result(Ok(get_todo_by_id(db, todo_id)), users, todos))

CrudUpdateTodo ==
    \E todo_id \in TodoIds, todo_update \in StateUpdates \cup {NullTitle} :
        Crud("update_todo", [todo_id |-> todo_id, todo_update |-> todo_update],
             update_todo(db, todo_id, todo_update))

CrudDeleteTodo ==
    \E todo_id \in TodoIds :
        Crud("delete_todo", [todo_id |-> todo_id], delete_todo(db, todo_id))

CrudNext ==
    \/ CrudCreateUser
    \/ CrudUpdateUser
    \/ CrudDeleteUserFetch
    \/ CrudDeleteUserCommit
    \/ CrudCreateTodo
    \/ CrudGetTodo
    \/ CrudUpdateTodo
    \/ CrudDeleteTodo

CrudSpec == Init /\ [][CrudNext]_vars

(***************************************************************************)
(* app/crud/todo.py driven with every patch TodoUpdate admits, over a      *)
(* store of at most MaxPatchedTodos Todos.                                 *)
(***************************************************************************)
MergeCreateTodo ==
    \E todo \in TodoCreates, user_id \in UserIds :
        /\ nextTid <= MaxPatchedTodos
        /\ Crud("create_user_todo", [todo |-> todo, user_id |-> user_id],
                create_user_todo(db, todo, user_id, TodoId(nextTid)))

MergeUpdateTodo ==
    \E todo_id \in TodoIds, todo_update \in TodoUpdates :
        Crud("update_todo", [todo_id |-> todo_id, todo_update |-> todo_update],
             update_todo(db, todo_id, todo_update))

MergeNext ==
    \/ CrudCreateUser
    \/ MergeCreateTodo
    \/ MergeUpdateTodo

MergeSpec == Init /\ [][MergeNext]_vars

(***************************************************************************)
(* The handlers called with an identity context {id, email} of a stored    *)
(* user, and get_current_user called with a token, over a store that       *)
(* create_user and create_user_todo have filled.                           *)
(***************************************************************************)
Handler(op, caller, args, r, resp) ==
    /\ Finish("handler", op, NoHeader, caller, args, r, resp)
    /\ UNCHANGED <<pending, sessions, issued>>

HandlerReadUser ==
    \E cu \in IdentityContexts :
        LET r == read_user(db, cu)
        IN Handler("read_user", cu, << >>, r,
                   Respond(r.out, 200, IF r.out.kind = "ok" THEN UserSchema(r.out.value) ELSE None))

HandlerUpdateUser ==
    \E cu \in IdentityContexts, user_update \in UserUpdates, salt \in Salts :
        LET r == update_user_by_email(db, cu, user_update, salt)
        IN Handler("update_user_by_email", cu, user_update, r,
                   Respond(r.out, 200,
                           IF r.out.kind = "ok"
                           THEN [user |-> UserSchema(r.out.value.user),
                                 access_token |-> r.out.value.access_token]
                           ELSE None))

HandlerDeleteUser ==
    \E cu \in IdentityContexts :
        LET r == user_delete(db, cu)
        IN Handler("user_delete", cu, << >>, r, Respond(r.out, 204, None))

HandlerReadTodos ==
    \E cu \in Identities, skip \in 0..1, limit \in 1..2 :
        LET r == read_todos(db, cu, skip, limit)
        IN Handler("read_todos", cu, [skip |-> skip, limit |-> limit], r,
                   Respond(r.out, 200, r.out.value))

HandlerCreateTodo ==
    \E cu \in Identities, todo \in TodoCreates :
        /\ nextTid <= MaxTodos
        /\ LET r == create_todo(db, cu, todo, TodoId(nextTid))
           IN Handler("create_todo", cu, todo, r, Respond(r.out, 201, r.out.value))

HandlerReadTodo ==
    \E cu \in Identities, todo_id \in TodoIds :
        LET r == read_todo(db, todo_id, cu)
        IN Handler("read_todo", cu, [todo_id |-> todo_id], r,
                   Respond(r.out, 200, IF r.out.kind = "ok" THEN TodoSchema(r.out.value) ELSE None))

HandlerUpdateTodo ==
    \E cu \in Identities, todo_id \in TodoIds, todo_update \in StateUpdates :
        LET r == update_todo_item(db, todo_id, todo_update, cu)
        IN Handler("update_todo_item", cu, [todo_id |-> todo_id, todo_update |-> todo_update], r,
                   Respond(r.out, 200, r.out.value))

HandlerDeleteTodo ==
    \E cu \in Identities, todo_id \in TodoIds :
        LET r == delete_todo_item(db, todo_id, cu)
        IN Handler("delete_todo_item", cu, [todo_id |-> todo_id], r,
                   Respond(r.out, 200, IF r.out.kind = "ok" THEN r.out.value ELSE None))

\* user_create takes no identity: the UserCreate body only.
HandlerUserCreate ==
    \E user \in UserCreates, salt \in Salts :
        /\ nextUid <= MaxUsers
        /\ LET r == user_create(db, user, UserId(nextUid), salt)
           IN Finish("handler_open", "user_create", NoHeader, NoCaller, user, r,
                     Respond(r.out, 201, IF r.out.kind = "ok" THEN UserSchema(r.out.value) ELSE None))
        /\ UNCHANGED <<pending, sessions, issued>>

\* login_for_access_token takes no identity: form_data only.
HandlerLogin ==
    \E username \in Usernames, password \in Passwords :
        LET r == login_for_access_token(db, username, password)
        IN /\ Finish("handler_open", "login", NoHeader, NoCaller,
                     [username |-> username, password |-> password], r,
                     Respond(r.out, 200, IF r.out.kind = "ok" THEN r.out.value ELSE None))
           /\ UNCHANGED <<pending, sessions, issued>>

\* get_current_user called as a function, with the token handed in.
DependencyGetCurrentUser ==
    \E token \in Tokens \cup {None} :
        LET out == get_current_user(token, db)
        IN /\ Finish("dependency", "get_current_user", NoHeader,
                     IF out.kind = "ok" THEN out.value ELSE NoCaller,
                     [token |-> token], Result(out, users, todos), Respond(out, 200, None))
           /\ UNCHANGED <<pending, sessions, issued>>

HandlerNext ==
    \/ HandlerUserCreate
    \/ CrudCreateTodo
    \/ HandlerReadUser
    \/ HandlerUpdateUser
    \/ HandlerDeleteUser
    \/ HandlerReadTodos
    \/ HandlerCreateTodo
    \/ HandlerReadTodo
    \/ HandlerUpdateTodo
    \/ HandlerDeleteTodo
    \/ HandlerLogin
    \/ DependencyGetCurrentUser

HandlerSpec == Init /\ [][HandlerNext]_vars

(***************************************************************************)
(* Tokens over time: `issued` keeps every token the service has handed out *)
(* together with the id of the user it was handed to; a later request      *)
(* presents one of them to get_current_user.                               *)
(***************************************************************************)
TokenLogin ==
    \E username \in Usernames, password \in Passwords :
        LET r == login_for_access_token(db, username, password)
        IN /\ Finish("handler_open", "login", NoHeader, NoCaller,
                     [username |-> username, password |-> password], r,
                     Respond(r.out, 200, IF r.out.kind = "ok" THEN r.out.value ELSE None))
           /\ issued' = IF r.out.kind = "ok"
                        THEN issued \cup {<<r.out.value.access_token,
                                            get_user_by_username(db, username).id>>}
                        ELSE issued
           /\ UNCHANGED <<pending, sessions>>

TokenUpdateSelf ==
    \E cu \in Identities, user_update \in UserUpdates, salt \in Salts :
        LET r == update_user_by_email(db, cu, user_update, salt)
        IN /\ Finish("handler", "update_user_by_email", NoHeader, cu, user_update, r,
                     Respond(r.out, 200,
                             IF r.out.kind = "ok"
                             THEN [user |-> UserSchema(r.out.value.user),
                                   access_token |-> r.out.value.access_token]
                             ELSE None))
           /\ issued' = IF r.out.kind = "ok"
                        THEN issued \cup {<<r.out.value.access_token, cu.id>>}
                        ELSE issued
           /\ UNCHANGED <<pending, sessions>>

\* A later request: get_current_user given a token that was issued, holder
\* being the id of the user it was issued to.
TokenPresent ==
    \E grant \in issued :
        LET out == get_current_user(grant[1], db)
        IN /\ Finish("dependency", "get_current_user", NoHeader,
                     IF out.kind = "ok" THEN out.value ELSE NoCaller,
                     [token |-> grant[1], holder |-> grant[2]],
                     Result(out, users, todos), Respond(out, 200, None))
           /\ UNCHANGED <<pending, sessions, issued>>

TokenNext ==
    \/ HandlerUserCreate
    \/ TokenLogin
    \/ TokenUpdateSelf
    \/ HandlerDeleteUser
    \/ TokenPresent

TokenSpec == Init /\ [][TokenNext]_vars

(***************************************************************************)
(* database.py: a request in three steps, get_db up to its yield, the      *)
(* endpoint, get_db after its yield.                                       *)
(***************************************************************************)
\* How the endpoint was left, as get_db sees it at its yield.
ExitPath(out) ==
    IF out.kind = "ok" THEN "return"
    ELSE IF out.kind = "http" THEN "HTTPException"
    ELSE "Exception"

\* Variant: `session = AsyncSessionLocal(); yield session; await
\* session.close()`, which closes only when the yield returns normally.
get_db_close_after_yield(exit) == exit = "return"

\* `async with AsyncSessionLocal() as session: yield session`: __aexit__
\* closes the session on whichever path the block is left.
get_db_aexit(exit) == exit \in {"return", "HTTPException", "Exception"}

SessionEnter(slot) ==
    /\ sessions[slot].phase \in {"idle", "closed"}
    /\ sessions' = [sessions EXCEPT ![slot] = [phase |-> "open", exit |-> "none"]]
    /\ UNCHANGED <<users, todos, nextUid, nextTid, pending, last, issued>>

\* The endpoint of the request in the slot runs with the session it holds.
Served(slot, op, auth, caller, args, r, resp) ==
    /\ sessions[slot].phase = "open"
    /\ Finish("http", op, auth, caller, args, r, resp)
    /\ sessions' = [sessions EXCEPT ![slot] = [phase |-> "done", exit |-> ExitPath(r.out)]]
    /\ UNCHANGED <<pending, issued>>

SessionUserCreate(slot) ==
    \E user \in UserCreates, salt \in Salts :
        /\ nextUid <= MaxUsers
        /\ LET r == user_create(db, user, UserId(nextUid), salt)
           IN Served(slot, "user_create", NoHeader, NoCaller, user, r,
                     Respond(r.out, 201, IF r.out.kind = "ok" THEN UserSchema(r.out.value) ELSE None))

SessionLogin(slot) ==
    \E username \in Usernames, password \in Passwords :
        LET r == login_for_access_token(db, username, password)
        IN Served(slot, "login", NoHeader, NoCaller,
                  [username |-> username, password |-> password], r,
                  Respond(r.out, 200, IF r.out.kind = "ok" THEN r.out.value ELSE None))

SessionReadUser(slot) ==
    \E auth \in {Bearer(TextToken("")), Bearer(create_access_token([sub |-> "alice"]))} :
        LET cu == Depends_get_current_user(auth, db)
            r == IF cu.kind = "ok" THEN read_user(db, cu.value) ELSE Result(cu, users, todos)
        IN Served(slot, "read_user", auth, IF cu.kind = "ok" THEN cu.value ELSE NoCaller, << >>, r,
                  Respond(r.out, 200, IF r.out.kind = "ok" THEN UserSchema(r.out.value) ELSE None))

SessionRun(slot) ==
    SessionUserCreate(slot) \/ SessionLogin(slot) \/ SessionReadUser(slot)

SessionExit(slot) ==
    /\ sessions[slot].phase = "done"
    /\ get_db_aexit(sessions[slot].exit)
    /\ sessions' = [sessions EXCEPT ![slot].phase = "closed"]
    /\ UNCHANGED <<users, todos, nextUid, nextTid, pending, last, issued>>

SessionNext ==
    \/ \E slot \in Slots : SessionEnter(slot)
    \/ \E slot \in Slots : SessionUserCreate(slot)
    \/ \E slot \in Slots : SessionLogin(slot)
    \/ \E slot \in Slots : SessionReadUser(slot)
    \/ \E slot \in Slots : SessionExit(slot)

\* An endpoint that was entered runs to its end, and the exit stack of the
\* request then resumes get_db.
SessionSpec ==
    /\ Init
    /\ [][SessionNext]_vars
    /\ \A slot \in Slots : WF_vars(SessionRun(slot)) /\ WF_vars(SessionExit(slot))

(***************************************************************************)
(* Properties.                                                             *)
(***************************************************************************)
TodoHandlers == {"read_todo", "update_todo_item", "delete_todo_item"}

\* The stored Todo a handler call was aimed at, if there is one.
TargetExists == \E i \in 1..Len(todos) : todos[i].id = last.args.todo_id
TargetOwner == (CHOOSE t \in SeqToSet(todos) : t.id = last.args.todo_id).user_id

NotFoundResponse == Response(404, "Todo not found", NoHeaders, None)

\* C1: when identity B gets, updates or deletes a Todo that a different
\* identity A owns, the answer is 404 "Todo not found".
C1_OwnershipIsolation ==
    (/\ last.layer = "handler"
     /\ last.op \in TodoHandlers
     /\ TargetExists
     /\ TargetOwner # last.caller.id)
        => (last.resp.status = 404 /\ last.resp.detail = "Todo not found")

\* The rows of the store that do not belong to identity id.
UsersOfOthers(U, id) == {u \in U : u.id # id}
TodosOfOthers(T, id) == SelectSeq(T, LAMBDA t : t.user_id # id)

C3_UniformNotFound ==
    (/\ last.layer = "handler"
     /\ last.op \in TodoHandlers
     /\ (~TargetExists \/ TargetOwner # last.caller.id))
        => last.resp = NotFoundResponse

\* C4: delete_user on a user who owns Todos succeeds, removes the user and
\* every Todo of that user, and a lookup of each of those ids then finds
\* nothing.
C4_CascadeDelete ==
    [][(/\ pending # NoSession
        /\ pending' = NoSession
        /\ \E i \in 1..Len(todos) : todos[i].user_id = pending.id)
          => /\ last'.out.kind = "ok"
             /\ ~\E u \in users' : u.id = pending.id
             /\ \A i \in 1..Len(todos) :
                    todos[i].user_id = pending.id
                        => get_todo_by_id(DB(users', todos'), todos[i].id) = None]_vars

\* C5: every stored Todo has a non-null user_id that is the id of exactly
\* one stored User.
C5_NoOrphanTodo ==
    \A i \in 1..Len(todos) :
        /\ todos[i].user_id # NULL
        /\ Cardinality({u \in users : u.id = todos[i].user_id}) = 1

\* A Todo was created for a user between the SELECT and the commit of a
\* delete_user of that same user.
C5_Witness ==
    /\ pending # NoSession
    /\ last.op = "create_user_todo"
    /\ last.out.kind = "ok"
    /\ last.out.value.user_id = pending.id

\* C6: no two distinct stored Users share a username, and no two share an
\* email.
C6_UniqueUsernameEmail ==
    \A u, v \in users : u # v => (u.username # v.username /\ u.email # v.email)

\* Two users are stored and a change of username to the one the other holds
\* was just attempted.
C6_Witness ==
    /\ last.op = "update_user"
    /\ "username" \in DOMAIN last.args.user_update
    /\ \E u, v \in users :
          /\ u # v
          /\ u.email = last.args.email
          /\ v.username = last.args.user_update["username"]
    /\ last.out = Raise("IntegrityError")

\* C7: a registration whose username or email a stored User already holds
\* fails with the store's uniqueness violation, is not answered with
\* success, adds no User and changes no stored User.
C7_RegisterConflict ==
    [][(/\ last'.layer = "http"
        /\ last'.op = "user_create"
        /\ \E u \in users : u.username = last'.args.username \/ u.email = last'.args.email)
          => /\ last'.out = Raise("IntegrityError")
             /\ last'.resp.status \notin 200..299
             /\ users' = users]_vars

\* A registration under a taken username was just refused.
C7_Witness ==
    /\ last.layer = "http"
    /\ last.op = "user_create"
    /\ \E u \in users : u.username = last.args.username /\ u.email # last.args.email
    /\ last.out = Raise("IntegrityError")

AuthenticatedRoutes ==
    {"read_user", "update_user_by_email", "user_delete", "read_todos", "create_todo",
     "read_todo", "update_todo_item", "delete_todo_item"}

InvalidCredentialsResponse == Response(401, "Invalid credentials", BearerChallenge, None)

\* The token of a request: absent, or a string that verification under the
\* configured secret and algorithm does not turn into claims with a `sub`.
TokenFailsVerification(auth) ==
    \/ auth.kind = "absent"
    \/ /\ auth.kind = "bearer"
       /\ \/ auth.token.kind = "text"
          \/ /\ auth.token.kind = "jws"
             /\ \/ auth.token.header.alg # ALGORITHM
                \/ auth.token.signature
                      # HMAC(auth.token.header.alg, SECRET_KEY, <<auth.token.header, auth.token.payload>>)
                \/ "sub" \notin DOMAIN auth.token.payload
                \/ auth.token.payload.sub = NULL

\* C8: a request whose token is absent, empty, malformed, signed with another
\* algorithm or another secret, or without a (non-null) `sub`, is answered
\* 401 "Invalid credentials" and runs under no identity.
C8_InvalidTokenRejected ==
    (/\ last.layer = "http"
     /\ last.op \in AuthenticatedRoutes
     /\ TokenFailsVerification(last.auth))
        => (last.resp = InvalidCredentialsResponse /\ last.caller = NoCaller)

\* C9: a request that presents create_access_token({sub: u}) for the
\* username u of a stored User runs under exactly that user's {id, email}.
C9_IssuedTokenResolves ==
    \A u \in users :
        (/\ last.layer = "http"
         /\ last.op \in AuthenticatedRoutes
         /\ last.auth = Bearer(create_access_token([sub |-> u.username])))
            => last.caller = [id |-> u.id, email |-> u.email]

\* C10: a request that presents a correctly signed token whose `sub` is the
\* username of no stored User is answered 401 "Invalid credentials" and runs
\* under no identity.
C10_UnknownSubjectRejected ==
    \A name \in Usernames :
        (/\ last.layer = "http"
         /\ last.op \in AuthenticatedRoutes
         /\ last.auth = Bearer(create_access_token([sub |-> name]))
         /\ ~\E u \in users : u.username = name)
            => (last.resp = InvalidCredentialsResponse /\ last.caller = NoCaller)

\* The password p is the one whose hash the row u stores.
StoredPassword(u, p) == \E salt \in Salts : u.hashed_password = hashpw(p, salt)

\* C11: login(username, password) answers 200 with {access_token, token_type:
\* "bearer"}, the token verifying to sub = username, exactly when a stored
\* User has that username and the password is the one its stored hash was
\* made from; otherwise it answers 401 and carries no token.
C11_LoginIffCredentials ==
    last.op = "login"
        => IF \E u \in users : u.username = last.args.username /\ StoredPassword(u, last.args.password)
           THEN /\ last.resp.status = 200
                /\ DOMAIN last.resp.body = {"access_token", "token_type"}
                /\ last.resp.body.token_type = "bearer"
                /\ jwt_decode(last.resp.body.access_token, SECRET_KEY, {ALGORITHM})
                      = Ok([sub |-> last.args.username])
           ELSE /\ last.resp.status = 401
                /\ last.resp.body = None

\* A login with a wrong password for a stored username was just refused while
\* a second user is stored.
C11_Witness ==
    /\ last.layer = "handler_open"
    /\ last.op = "login"
    /\ last.resp.status = 401
    /\ Cardinality(users) = 2
    /\ \E u \in users : u.username = last.args.username /\ ~StoredPassword(u, last.args.password)

\* The stored row with the given id (the caller's own record).
UserById(U, id) == CHOOSE u \in U : u.id = id

\* A call of update_user_by_email by the identity of a stored user whose
\* patch sets exactly the fields D.
SelfUpdateOf(D) ==
    /\ last'.layer = "handler"
    /\ last'.op = "update_user_by_email"
    /\ DOMAIN last'.args = D
    /\ \E u \in users : u.id = last'.caller.id /\ u.email = last'.caller.email

Authenticates(U, username, password) ==
    ~Falsy(authenticate_user(DB(U, << >>), username, password))

\* C12 (as stated): updateSelf with a patch of `password` alone succeeds,
\* keeps username and email, and afterwards the new password authenticates
\* and the previous password does not.
C12_PasswordOnlyUpdate_Stated ==
    [][SelfUpdateOf({"password"})
         => LET old == UserById(users, last'.caller.id)
                new == UserById(users', last'.caller.id)
            IN /\ last'.out.kind = "ok"
               /\ new.username = old.username
               /\ new.email = old.email
               /\ Authenticates(users', new.username, last'.args.password)
               /\ \A p \in Passwords :
                     StoredPassword(old, p) => ~Authenticates(users', new.username, p)]_vars

\* C12 (amended): the same, the previous password failing afterwards when it
\* differs from the new one.
C12_PasswordOnlyUpdate ==
    [][SelfUpdateOf({"password"})
         => LET old == UserById(users, last'.caller.id)
                new == UserById(users', last'.caller.id)
            IN /\ last'.out.kind = "ok"
               /\ new.username = old.username
               /\ new.email = old.email
               /\ StoredPassword(new, last'.args.password)
               /\ Authenticates(users', new.username, last'.args.password)
               /\ \A p \in Passwords :
                     (StoredPassword(old, p) /\ p # last'.args.password)
                        => ~Authenticates(users', new.username, p)]_vars

\* A password-only update was just applied and a password other than the
\* new one does not authenticate the caller.
C12_Witness ==
    /\ last.layer = "handler"
    /\ last.op = "update_user_by_email"
    /\ DOMAIN last.args = {"password"}
    /\ last.out.kind = "ok"
    /\ \E p \in Passwords :
          /\ p # last.args.password
          /\ ~Authenticates(users, last.out.value.user.username, p)

\* C13: updateSelf with a patch of `username` alone (a name no other user
\* holds) succeeds, stores the new username, and keeps hashed_password and
\* email, so the password that authenticated before still does.
C13_UsernameOnlyUpdate ==
    [][(/\ SelfUpdateOf({"username"})
        /\ ~\E u \in users : u.id # last'.caller.id /\ u.username = last'.args["username"])
         => LET old == UserById(users, last'.caller.id)
                new == UserById(users', last'.caller.id)
            IN /\ last'.out.kind = "ok"
               /\ last'.resp.status = 200
               /\ new.username = last'.args["username"]
               /\ new.hashed_password = old.hashed_password
               /\ new.email = old.email
               /\ \A p \in Passwords :
                     StoredPassword(old, p) => Authenticates(users', new.username, p)]_vars

C15_ReissuedTokenResolves ==
    (/\ last.layer = "handler"
     /\ last.op = "update_user_by_email"
     /\ last.out.kind = "ok")
        => LET token == last.resp.body.access_token
               me == UserById(users, last.caller.id)
           IN /\ jwt_decode(token, SECRET_KEY, {ALGORITHM}) = Ok([sub |-> me.username])
              /\ get_current_user(token, db) = Ok([id |-> last.caller.id, email |-> me.email])

UserHandlers == {"read_user", "update_user_by_email", "user_delete"}

\* C16: read_user, update_user_by_email and user_delete answer 400 "User not
\* found or unauthorized" and write nothing when no record has the
\* identity's email or the record that has it carries another id; when the
\* record's id is the identity's they go past the guard.
C16_SelfGuard ==
    [][(last'.layer = "handler" /\ last'.op \in UserHandlers)
         => LET user == get_user_by_email(db, last'.caller.email)
            IN IF user = None \/ user.id # last'.caller.id
               THEN /\ last'.resp = Response(400, "User not found or unauthorized", NoHeaders, None)
                    /\ users' = users
                    /\ todos' = todos
               ELSE last'.out # Unauthorized]_vars

\* user_delete was just refused for an identity that carries the id of a
\* deleted user and the email of the one record still stored.
C16_Witness ==
    /\ last.layer = "handler"
    /\ last.op = "user_delete"
    /\ last.resp.status = 400
    /\ \E u \in users : u.email = last.caller.email /\ u.id # last.caller.id
    /\ nextUid = 3
    /\ Cardinality(users) = 1

\* The Todos of one owner in insertion order.
OwnedBy(T, id) == SelectSeq(T, LAMBDA t : t.user_id = id)

\* C17: read_todos(identity, skip, limit) answers 200 with exactly the
\* caller's Todos in insertion order, the first `skip` dropped and at most
\* `limit` kept: no Todo of another owner and never more than `limit`.
C17_ListOwnedPage ==
    (last.layer = "handler" /\ last.op = "read_todos")
        => LET owned == OwnedBy(todos, last.caller.id)
               from == last.args.skip + 1
               to == IF last.args.skip + last.args.limit < Len(owned)
                     THEN last.args.skip + last.args.limit ELSE Len(owned)
           IN /\ last.resp.status = 200
              /\ last.out = Ok([i \in 1..(IF to >= from THEN to - from + 1 ELSE 0) |-> owned[from + i - 1]])

\* C18: create_todo(identity, fields) stores one new Todo, owned by the
\* caller's id, with the state of the request (`pendiente` by default) and
\* an id no stored Todo has.
C18_CreateAssignsOwner ==
    [][(last'.layer = "handler" /\ last'.op = "create_todo")
         => /\ last'.resp.status = 201
            /\ Len(todos') = Len(todos) + 1
            /\ SubSeq(todos', 1, Len(todos)) = todos
            /\ todos'[Len(todos')].user_id = last'.caller.id
            /\ todos'[Len(todos')].state = last'.args.state
            /\ \A i \in 1..Len(todos) : todos[i].id # todos'[Len(todos')].id]_vars

\* C19: in every reachable state every stored Todo's state is `pendiente`
\* or `completado`.
C19_StateEnumerated ==
    \A i \in 1..Len(todos) : todos[i].state \in {"pendiente", "completado"}

\* The token verifies and names a `sub` that is the username of no stored User.
SubjectUnknown(auth) ==
    /\ auth.kind = "bearer"
    /\ ~TokenFailsVerification(auth)
    /\ ~\E u \in users : u.username = auth.token.payload.sub

\* C20: a login with bad credentials is answered 401 with the header
\* WWW-Authenticate: Bearer, and a request whose bearer token get_current_user
\* refuses (bad token or unknown subject) is answered with one and the same
\* response whichever check failed: 401 "Invalid credentials" with that
\* header.
C20_AuthFailuresChallenge ==
    /\ (/\ last.layer = "http"
        /\ last.op = "login"
        /\ ~\E u \in users : u.username = last.args.username /\ StoredPassword(u, last.args.password))
          => (last.resp.status = 401 /\ <<"WWW-Authenticate", "Bearer">> \in last.resp.headers)
    /\ (/\ last.layer = "http"
        /\ last.op \in AuthenticatedRoutes
        /\ last.auth.kind = "bearer"
        /\ (TokenFailsVerification(last.auth) \/ SubjectUnknown(last.auth)))
          => last.resp = InvalidCredentialsResponse

SecretFields == {"hashed_password", "password"}

\* The record b, or the user record nested in it, has a field that carries a
\* password or its hash.
Exposes(b) ==
    \/ DOMAIN b \cap SecretFields # {}
    \/ "user" \in DOMAIN b /\ DOMAIN b.user \cap SecretFields # {}

\* C21: no response body of register, getSelf, updateSelf, login or a Todo
\* operation has a hashed_password or password field, at top level or in its
\* nested user; a token in a body carries `sub` and nothing else; and an
\* identity context returned by get_current_user has exactly the fields id
\* and email.
C21_NoPasswordInOutput ==
    /\ last.layer \in {"handler", "handler_open"}
          => /\ ~Exposes(last.resp.body)
             /\ "access_token" \in DOMAIN last.resp.body
                   => DOMAIN last.resp.body.access_token.payload = {"sub"}
    /\ (last.layer = "dependency" /\ last.out.kind = "ok")
          => DOMAIN last.out.value = {"id", "email"}

\* updateSelf was just answered 200 for a patch that carried a new password:
\* the body holds the user and a token.
C21_Witness ==
    /\ last.layer = "handler"
    /\ last.op = "update_user_by_email"
    /\ "password" \in DOMAIN last.args
    /\ last.resp.status = 200
    /\ DOMAIN last.resp.body = {"user", "access_token"}
    /\ DOMAIN last.resp.body.user = {"id", "username", "email"}

UserIdsOf(U) == {u.id : u \in U}
TodoIdsOf(T) == [i \in 1..Len(T) |-> T[i].id]

\* C22: no step changes an identifier or an ownership: a User keeps its id
\* and email and a Todo its id and user_id for as long as it is stored, and
\* an update (of a user or of a Todo) neither adds nor removes an id.
C22_IdentifiersImmutable ==
    [][/\ \A u \in users, v \in users' : v.id = u.id => v.email = u.email
       /\ \A i \in 1..Len(todos), j \in 1..Len(todos') :
             todos'[j].id = todos[i].id => todos'[j].user_id = todos[i].user_id
       /\ last'.op \in {"update_user", "update_todo"}
             => /\ UserIdsOf(users') = UserIdsOf(users)
                /\ TodoIdsOf(todos') = TodoIdsOf(todos)]_vars

\* update_user just renamed and re-keyed the password of a user who owns a
\* Todo.
C22_Witness ==
    /\ last.layer = "crud"
    /\ last.op = "update_user"
    /\ last.out.kind = "ok"
    /\ last.out.value # None
    /\ DOMAIN last.args.user_update = {"username", "password"}
    /\ \E i \in 1..Len(todos) : todos[i].user_id = last.out.value.id

\* The call recorded in last' made no db.delete and no db.commit, left both
\* tables as they were and returned None.
NoWriteNoEntity ==
    /\ last'.out = Ok(None)
    /\ last'.deletes = 0
    /\ last'.commits = 0
    /\ users' = users
    /\ todos' = todos

\* C23: update_todo and delete_todo given a todo id that is not stored, and
\* delete_user given an email that is not stored, call neither db.delete nor
\* db.commit, leave the store unchanged and return None.
C23_AbsentTargetNoWrite ==
    [][(last'.layer = "crud" /\ pending' = pending)
         => /\ (/\ last'.op \in {"update_todo", "delete_todo"}
                /\ ~\E i \in 1..Len(todos) : todos[i].id = last'.args.todo_id)
                  => NoWriteNoEntity
            /\ (/\ last'.op = "delete_user"
                /\ ~\E u \in users : u.email = last'.args.email)
                  => NoWriteNoEntity]_vars

\* delete_todo was just called with an id that is not stored while another
\* Todo is.
C23_Witness ==
    /\ last.layer = "crud"
    /\ last.op = "delete_todo"
    /\ last.out = Ok(None)
    /\ last.commits = 0
    /\ Len(todos) > 0
    /\ \A i \in 1..Len(todos) : todos[i].id # last.args.todo_id

\* The commit of the call recorded in last' is one the store rejects: a
\* registration under a taken username or email, a Todo for a user_id that
\* is no User's id, an update that sets a stored Todo's title to null.
CommitRejected ==
    \/ /\ last'.op = "create_user"
       /\ \E u \in users : u.username = last'.args.username \/ u.email = last'.args.email
    \/ /\ last'.op = "create_user_todo"
       /\ ~\E u \in users : u.id = last'.args.user_id
    \/ /\ last'.op = "update_todo"
       /\ \E i \in 1..Len(todos) : todos[i].id = last'.args.todo_id
       /\ "title" \in DOMAIN last'.args.todo_update
       /\ last'.args.todo_update["title"] = NULL

\* C24: when the commit of create_user, create_user_todo or update_todo
\* fails, the call ends with the store's exception, not with a result, and
\* db.commit was called exactly once.
C24_CommitFailurePropagates ==
    [][(last'.layer = "crud" /\ pending' = pending /\ CommitRejected)
         => /\ last'.out.kind = "raise"
            /\ last'.out = Raise("IntegrityError")
            /\ last'.commits = 1]_vars

\* update_todo just failed at its commit.
C24_Witness ==
    /\ last.layer = "crud"
    /\ last.op = "update_todo"
    /\ last.args.todo_update = NullTitle
    /\ last.out = Raise("IntegrityError")
    /\ last.commits = 1

Held(slot) == sessions[slot].phase \in {"open", "done"}

\* C25: a session a request got from get_db is released, whichever way the
\* endpoint was left (return, HTTPException, any other exception): a held
\* session is eventually not held.
C25_SessionReleased ==
    \A slot \in Slots : Held(slot) ~> ~Held(slot)

\* One request that ended in an HTTPException and one that ended in an
\* unexpected exception have both given their sessions back.
C25_Witness ==
    \E a, b \in Slots :
        /\ sessions[a] = [phase |-> "closed", exit |-> "HTTPException"]
        /\ sessions[b] = [phase |-> "closed", exit |-> "Exception"]

\* The call recorded in last' is update_todo_item by the owner of a stored
\* Todo.
OwnerUpdates ==
    /\ last'.layer = "handler"
    /\ last'.op = "update_todo_item"
    /\ \E i \in 1..Len(todos) :
          todos[i].id = last'.args.todo_id /\ todos[i].user_id = last'.caller.id

\* C26: each of the owner's update requests on a Todo completes with
\* success and leaves in the field it writes the value it wrote, so that of
\* two requests writing the same field the one that commits last decides the
\* stored value and no third value can appear.
C26_LastWriteWins ==
    [][(OwnerUpdates /\ "state" \in DOMAIN last'.args.todo_update)
         => /\ last'.resp.status = 200
            /\ \E i \in 1..Len(todos') :
                  /\ todos'[i].id = last'.args.todo_id
                  /\ todos'[i].state = last'.args.todo_update["state"]]_vars

\* C27: an owner's update request ends with the updated Todo (200) or with
\* 404 "Todo not found", whatever a delete of the same Todo has done or does
\* meanwhile, and adds no Todo to the store.
C27_UpdateVersusDelete ==
    [][(last'.layer = "handler" /\ last'.op = "update_todo_item")
         => /\ \/ last'.resp.status = 200 /\ DOMAIN last'.resp.body = DOMAIN TodoSchema(ToDoRow("", "", "", "", ""))
               \/ last'.resp = NotFoundResponse
            /\ \A j \in 1..Len(todos') : \E i \in 1..Len(todos) : todos[i].id = todos'[j].id]_vars

C29_TokenAcceptedWhileUserExists ==
    (/\ last.layer = "dependency"
     /\ last.args.token # None
     /\ last.args.token.kind = "jws"
     /\ \E u \in users : last.args.token = create_access_token([sub |-> u.username]))
        => /\ jwt_decode(last.args.token, SECRET_KEY, {ALGORITHM}).kind = "ok"
           /\ last.out.kind = "ok"
           /\ \E u \in users :
                 /\ u.username = last.args.token.payload.sub
                 /\ last.out.value = [id |-> u.id, email |-> u.email]

\* C30: no endpoint answers with SECRET_KEY in its body, and nothing a caller
\* without a token is answered with serves as a key under which a token
\* forged for some username verifies.
C30_SecretNeverServed ==
    /\ (last.layer = "http" /\ last.op \in {"info", "user_create"} /\ last.resp.status \in 200..299)
          => \A f \in DOMAIN last.resp.body :
                /\ last.resp.body[f] # SECRET_KEY
                /\ \A name \in Usernames :
                      jwt_decode(jwt_encode([sub |-> name], last.resp.body[f], ALGORITHM),
                                 SECRET_KEY, {ALGORITHM}).kind # "ok"
    /\ (last.layer = "http" /\ last.op = "login" /\ last.resp.status = 200)
          => /\ last.resp.body.token_type # SECRET_KEY
             /\ last.resp.body.access_token.kind = "jws"

====
